---- MODULE Spec2Model ----
(***************************************************************************)
(* Model of gpt-cli (src/main.py): the agent turn loop _run_agent_loop and *)
(* the session driver chat_command.                                        *)
(*                                                                         *)
(* Texts (Python str) are run-length encoded character sequences: a text   *)
(* is a sequence of runs [c |-> character, n |-> repetitions], kept in     *)
(* normal form (no empty run, adjacent runs carry different characters),   *)
(* so that two texts are equal exactly when the strings are equal and a    *)
(* 10,000 character result stays small.                                    *)
(***************************************************************************)
EXTENDS Integers, Sequences, FiniteSets, TLC

VARIABLES
    messages,     \* chat_command's list `messages` (the conversation)
    pc,           \* control position of the process
    phase,        \* which call site of _run_agent_loop is active
    message,      \* _run_agent_loop's local `message` (the last model reply)
    idx,          \* position of the for-loop over message.tool_calls
    result,       \* local `result` of the last dispatched call, before truncation
    lastInvoked,  \* whether the last dispatched call ran a tool function
    invocations,  \* number of tool functions invoked so far
    modelCalls,   \* number of model calls that returned
    toolCalls,    \* number of tool calls requested by the model so far
    inputs,       \* number of lines read that started a turn
    cause,        \* what ended the session ("none" while it runs)
    preError,     \* the conversation when a model call raised
    argPrompt,    \* chat_command's argument `prompt`
    lastLine,     \* chat_command's local `user_input` (the line read last)
    turnModelCalls, \* number of model calls that returned in the current turn
    skills,       \* the documents of SKILLS_DIR, by file stem
    loadedSkills, \* the documents of SKILLS_DIR when load_skills ran
    loads,        \* number of times load_skills ran
    saves,        \* the arguments of the create_skill calls that wrote their document
    ld_dir,       \* list_directory study: what dir_path names
    ld_out,       \* list_directory study: the text returned
    ld_pc,        \* list_directory study: position
    t_in,         \* truncation study: the input text
    t_once,       \* truncation study: the text truncated once
    t_twice,      \* truncation study: the text truncated twice
    t_pc          \* truncation study: position

vars == <<messages, pc, phase, message, idx, result, lastInvoked, invocations,
          modelCalls, toolCalls, inputs, cause, preError,
          argPrompt, lastLine, turnModelCalls,
          skills, loadedSkills, loads, saves,
          ld_dir, ld_out, ld_pc,
          t_in, t_once, t_twice, t_pc>>

sessionVars == <<messages, pc, phase, message, idx, result, lastInvoked, invocations,
                 modelCalls, toolCalls, inputs, cause, preError,
                 argPrompt, lastLine, turnModelCalls>>

skillVars == <<skills, loadedSkills, loads, saves>>

listVars == <<ld_dir, ld_out, ld_pc>>

truncVars == <<t_in, t_once, t_twice, t_pc>>

----------------------------------------------------------------------------
(* Bounds *)

MaxCalls == 2        \* tool calls in one model reply
MaxToolCalls == 2    \* tool calls requested in one session
MaxModelCalls == 4   \* model calls in one session
MaxInputs == 2       \* user lines that start a turn
Slack == 2           \* how far the studied text lengths reach around the cap

----------------------------------------------------------------------------
(* Python str as run-length encoded text *)

RECURSIVE TLen(_)
TLen(t) == IF t = <<>> THEN 0 ELSE t[1].n + TLen(Tail(t))

\* the runs of a followed by the runs of b, the two runs that meet merged when
\* they hold the same character
TCatRuns(a, b) ==
    IF a = <<>> THEN b
    ELSE IF b = <<>> THEN a
    ELSE IF a[Len(a)].c = b[1].c
         THEN SubSeq(a, 1, Len(a) - 1)
              \o <<[c |-> b[1].c, n |-> a[Len(a)].n + b[1].n]>>
              \o Tail(b)
         ELSE a \o b

\* a + b; each operand is evaluated once
TCat(a, b) == CHOOSE t \in {TCatRuns(x, y) : x \in {a}, y \in {b}} : TRUE

RECURSIVE TTake(_, _)
TTake(t, k) ==
    IF k <= 0 \/ t = <<>> THEN <<>>
    ELSE IF t[1].n <= k THEN <<t[1]>> \o TTake(Tail(t), k - t[1].n)
    ELSE <<[c |-> t[1].c, n |-> k]>>

RECURSIVE TDrop(_, _)
TDrop(t, k) ==
    IF k <= 0 \/ t = <<>> THEN t
    ELSE IF t[1].n <= k THEN TDrop(Tail(t), k - t[1].n)
    ELSE <<[c |-> t[1].c, n |-> t[1].n - k]>> \o Tail(t)

TTakeLast(t, k) == TDrop(t, TLen(t) - k)

Rep(ch, k) == IF k <= 0 THEN <<>> ELSE <<[c |-> ch, n |-> k]>>

RECURSIVE Lit(_)
Lit(chars) ==
    IF chars = <<>> THEN <<>>
    ELSE IF Len(chars) = 1 THEN Rep(chars[1], 1)
    ELSE LET h == Len(chars) \div 2
         IN  TCat(Lit(SubSeq(chars, 1, h)), Lit(SubSeq(chars, h + 1, Len(chars))))

----------------------------------------------------------------------------
(* Tool registry: the keys of TOOLS_MAP, as texts *)

RunShellCommandName ==
    Lit(<<"r", "u", "n", "_", "s", "h", "e", "l", "l", "_", "c", "o", "m", "m", "a", "n", "d">>)
ReadFileName ==
    Lit(<<"r", "e", "a", "d", "_", "f", "i", "l", "e">>)
WriteFileName ==
    Lit(<<"w", "r", "i", "t", "e", "_", "f", "i", "l", "e">>)
ListDirectoryName ==
    Lit(<<"l", "i", "s", "t", "_", "d", "i", "r", "e", "c", "t", "o", "r", "y">>)
WebSearchName ==
    Lit(<<"w", "e", "b", "_", "s", "e", "a", "r", "c", "h">>)
CreateSkillName ==
    Lit(<<"c", "r", "e", "a", "t", "e", "_", "s", "k", "i", "l", "l">>)

TOOLS_MAP ==
    {RunShellCommandName, ReadFileName, WriteFileName, ListDirectoryName,
     WebSearchName, CreateSkillName}

\* a name the model may emit that is no key of TOOLS_MAP
UnknownName == Lit(<<"r", "m">>)

----------------------------------------------------------------------------
(* Result texts synthesized by the dispatch step, and the truncation rule *)

Cap == 10000

Marker ==
    Lit(<<".", ".", ".", " ", "[", "T", "r", "u", "n", "c", "a", "t", "e", "d", "]">>)

\* f"Error: Invalid arguments for tool '{func_name}'."
ErrInvalid(func_name) ==
    TCat(TCat(Lit(<<"E", "r", "r", "o", "r", ":", " ", "I", "n", "v", "a", "l", "i", "d", " ",
                    "a", "r", "g", "u", "m", "e", "n", "t", "s", " ", "f", "o", "r", " ",
                    "t", "o", "o", "l", " ", "'">>),
              func_name),
         Lit(<<"'", ".">>))

\* f"Error: Tool '{func_name}' not found."
ErrNotFound(func_name) ==
    TCat(TCat(Lit(<<"E", "r", "r", "o", "r", ":", " ", "T", "o", "o", "l", " ", "'">>),
              func_name),
         Lit(<<"'", " ", "n", "o", "t", " ", "f", "o", "u", "n", "d", ".">>))

\* f"Error executing tool '{func_name}': {e}"
ErrExec(func_name, e) ==
    TCat(TCat(TCat(Lit(<<"E", "r", "r", "o", "r", " ", "e", "x", "e", "c", "u", "t", "i", "n", "g",
                         " ", "t", "o", "o", "l", " ", "'">>),
                   func_name),
              Lit(<<"'", ":", " ">>)),
         e)

\* mutant: the cap itself already counts as too long
TruncateAtCap(r) ==
    IF TLen(r) >= Cap THEN TCat(TTake(r, Cap), Marker) ELSE r

\* mutant: result[-10000:], the end of the text is kept instead of its start
TruncateKeepTail(r) ==
    IF TLen(r) > Cap THEN TCat(TTakeLast(r, Cap), Marker) ELSE r

\* if len(result) > 10000: result = result[:10000] + "... [Truncated]"
Truncate(r) ==
    IF TLen(r) > Cap THEN TCat(TTake(r, Cap), Marker) ELSE r

----------------------------------------------------------------------------
(* Messages *)

NoId == 0

SystemPrompt ==
    Lit(<<"Y", "o", "u", " ", "a", "r", "e", " ", "g", "p", "t", "-", "c", "l", "i">>)

SystemMsg(text) ==
    [role |-> "system", content |-> text, tool_calls |-> <<>>, tool_call_id |-> NoId]

UserMsg(text) ==
    [role |-> "user", content |-> text, tool_calls |-> <<>>, tool_call_id |-> NoId]

AssistantMsg(text, calls) ==
    [role |-> "assistant", content |-> text, tool_calls |-> calls, tool_call_id |-> NoId]

\* mutant: the role of the retired function-call interface
ToolMsgLegacyRole(id, text) ==
    [role |-> "function", content |-> text, tool_calls |-> <<>>, tool_call_id |-> id]

ToolMsg(id, text) ==
    [role |-> "tool", content |-> text, tool_calls |-> <<>>, tool_call_id |-> id]

\* mutant: list.insert(0, m)
AppendMsgInsertFront(msgs, m) == <<m>> \o msgs

\* list.append
AppendMsg(msgs, m) == Append(msgs, m)

----------------------------------------------------------------------------
(* What the environment can supply *)

\* the state of tool_call.function.arguments, by what the dispatch step makes of it:
\*   "ok"      JSON object whose keys are the tool's parameters
\*   "badjson" not JSON: json.loads raises JSONDecodeError
\*   "badkw"   JSON, but no mapping or keys that are not the tool's parameters:
\*             TOOLS_MAP[func_name](**args) raises TypeError
\*   "markup"  JSON whose rendering inside "[dim]...[/dim]" is malformed console
\*             markup: console.print raises before the registry is consulted
ArgKinds == {"ok", "badjson", "badkw", "markup"}

ModelNames == {ReadFileName, UnknownName}

CallKinds == [name : ModelNames, arguments : ArgKinds]

\* the ids of a reply's calls: unique within the reply, reused by later
\* replies, and not always in the order of the calls
IdOrders(n) == {[i \in 1 .. n |-> i], [i \in 1 .. n |-> n + 1 - i]}

\* the ordered tool calls a reply can carry, n of them, of the given kinds
BatchesOf(kinds, n) ==
    {[i \in 1 .. n |-> [id |-> ids[i], name |-> ks[i].name,
                        arguments |-> ks[i].arguments]] :
        ks \in [1 .. n -> kinds], ids \in IdOrders(n)}

Batches(n) == BatchesOf(CallKinds, n)

Min(a, b) == IF a <= b THEN a ELSE b

\* the replies still within the bounds when `used` calls were requested before
BatchesWithinOf(kinds, used) ==
    UNION {BatchesOf(kinds, n) : n \in 0 .. Min(MaxCalls, MaxToolCalls - used)}

BatchesWithin(used) == BatchesWithinOf(CallKinds, used)

\* message.content: empty (None) on a reply that carries tool calls, a text
\* on a reply that does not
ReplyContent(calls) == IF calls = <<>> THEN Lit(<<"o", "k">>) ELSE <<>>

\* texts a tool can return
ToolOutputs ==
    {Lit(<<"o", "k">>), Rep("a", Cap), TCat(Rep("a", Cap), Lit(<<"z">>))}

\* str(e) of an exception raised inside the try-block: a TypeError names the
\* offending keyword, which is as long as the model made it
ShortMsg == Lit(<<"b", "a", "d">>)

ExcMsgs == {ShortMsg, Rep("k", Cap)}

MsgsOf(cls) == IF cls = "TypeError" THEN ExcMsgs ELSE {ShortMsg}

UserLines ==
    {<<>>, Lit(<<" ">>), Lit(<<"q">>), Lit(<<"E", "x", "i", "t">>), Lit(<<"h", "i">>),
     Lit(<<" ", "q", "u", "i", "t">>)}

\* the driver inputs of the sessions that explore the tool calls: a line that
\* starts a turn and an exit word, a prompt or none
FewLines == {Lit(<<"q">>), Lit(<<"h", "i">>)}

\* the tool calls of the sessions that explore the driver inputs
FewCallKinds ==
    {[name |-> ReadFileName, arguments |-> "ok"],
     [name |-> UnknownName, arguments |-> "badjson"]}

FewOutputs == {Lit(<<"o", "k">>)}

NoPrompt == [given |-> FALSE, text |-> <<>>]

FewPrompts == {NoPrompt, [given |-> TRUE, text |-> Lit(<<"g", "o">>)]}

Prompts ==
    {NoPrompt, [given |-> TRUE, text |-> <<>>],
     [given |-> TRUE, text |-> Lit(<<"g", "o">>)],
     [given |-> TRUE, text |-> Lit(<<"[", "/", "b", "]">>)]}

----------------------------------------------------------------------------
(* str.lower and str.strip, as far as the driver uses them *)

LowerChar(ch) ==
    CASE ch = "A" -> "a" [] ch = "B" -> "b" [] ch = "C" -> "c" [] ch = "D" -> "d"
      [] ch = "E" -> "e" [] ch = "F" -> "f" [] ch = "G" -> "g" [] ch = "H" -> "h"
      [] ch = "I" -> "i" [] ch = "J" -> "j" [] ch = "K" -> "k" [] ch = "L" -> "l"
      [] ch = "M" -> "m" [] ch = "N" -> "n" [] ch = "O" -> "o" [] ch = "P" -> "p"
      [] ch = "Q" -> "q" [] ch = "R" -> "r" [] ch = "S" -> "s" [] ch = "T" -> "t"
      [] ch = "U" -> "u" [] ch = "V" -> "v" [] ch = "W" -> "w" [] ch = "X" -> "x"
      [] ch = "Y" -> "y" [] ch = "Z" -> "z" [] OTHER -> ch

RECURSIVE Lower(_)
Lower(t) ==
    IF t = <<>> THEN <<>>
    ELSE TCat(Rep(LowerChar(t[1].c), t[1].n), Lower(Tail(t)))

Whitespace == {" ", "\t", "\n", "\r"}

RECURSIVE LStrip(_)
LStrip(t) ==
    IF t # <<>> /\ t[1].c \in Whitespace THEN LStrip(Tail(t)) ELSE t

RECURSIVE RStrip(_)
RStrip(t) ==
    IF t # <<>> /\ t[Len(t)].c \in Whitespace
    THEN RStrip(SubSeq(t, 1, Len(t) - 1)) ELSE t

Strip(t) == RStrip(LStrip(t))

\* mutant: the short form is missing
ExitWordsNoQ ==
    {Lit(<<"e", "x", "i", "t">>), Lit(<<"q", "u", "i", "t">>)}

ExitWords ==
    {Lit(<<"e", "x", "i", "t">>), Lit(<<"q", "u", "i", "t">>), Lit(<<"q">>)}

----------------------------------------------------------------------------
(* The dispatch step for one tool call, lines 234-256 *)

\* the exception classes the try-block of lines 235-242 can raise; all of
\* them derive from Exception
ExceptionClasses == {"JSONDecodeError", "MarkupError", "TypeError"}

\* the class of the exception raised inside the try-block, "none" if none is
Raised(call) ==
    IF call.arguments = "badjson" THEN "JSONDecodeError"
    ELSE IF call.arguments = "markup" THEN "MarkupError"
    ELSE IF call.name \in TOOLS_MAP /\ call.arguments = "badkw" THEN "TypeError"
    ELSE "none"

\* mutant: the handler of line 245 is missing
HandledOnlyJson(cls) == cls = "JSONDecodeError"

\* lines 243 and 245: except json.JSONDecodeError / except Exception
Handled(cls) == cls \in ExceptionClasses

\* whether the body of a tool function runs for this call (line 240)
ToolRuns(call) ==
    /\ Raised(call) = "none"
    /\ call.name \in TOOLS_MAP

\* mutant: the handler of line 243 is missing, line 245 takes its cases
ToolResultNoJsonClause(call, ret, e) ==
    IF Raised(call) # "none" THEN ErrExec(call.name, e)
    ELSE IF call.name \in TOOLS_MAP THEN ret
    ELSE ErrNotFound(call.name)

\* the value of `result` before truncation; ret is what the tool returns if
\* it runs, e is str(e) of the exception if one is raised
ToolResult(call, ret, e) ==
    IF Raised(call) = "JSONDecodeError" THEN ErrInvalid(call.name)
    ELSE IF Raised(call) # "none" THEN ErrExec(call.name, e)
    ELSE IF call.name \in TOOLS_MAP THEN ret
    ELSE ErrNotFound(call.name)

\* mutant: an unknown tool is skipped without a tool-result message
AppendResultSkipNotFound(msgs, call, res) ==
    IF call.name \notin TOOLS_MAP THEN msgs
    ELSE AppendMsg(msgs, ToolMsg(call.id, Truncate(res)))

\* lines 248-256: truncate, then append the tool-result message
AppendResult(msgs, call, res) ==
    AppendMsg(msgs, ToolMsg(call.id, Truncate(res)))

\* mutant: the for-loop leaves out the last call
MoreCallsOffByOne(msg, i) == i + 1 < Len(msg.tool_calls)

\* line 233: the for-loop has calls left after the i-th
MoreCalls(msg, i) == i < Len(msg.tool_calls)

\* mutant: the break of line 231 is missing
EndOfTurnNever(msg) == FALSE

\* mutant: the break of line 231 is unconditional
EndOfTurnAlways(msg) == TRUE

\* line 230: if not message.tool_calls: break
EndOfTurn(msg) == msg.tool_calls = <<>>

\* mutant: the loop gives up after two model calls
LoopConditionLimited(n) == n < 2

\* mutant: the body runs once, there is no loop
LoopConditionOnce(n) == FALSE

\* line 217: while True, whatever the number n of model calls of the turn
LoopCondition(n) == TRUE

\* line 298: console.print renders its argument as console markup and raises
\* MarkupError on a closing tag that closes nothing; the text printed before
\* the prompt leaves no tag open, so any closing tag "[/...]" in it fails
MarkupFails(t) ==
    \E i \in 1 .. Len(t) - 1 :
        /\ t[i].c = "["
        /\ t[i + 1].c = "/"
        /\ \E j \in (i + 1) .. Len(t) : t[j].c = "]"

----------------------------------------------------------------------------
(* The skill store: create_skill, lines 84-102, and load_skills, 201-210 *)

\* str.replace(old, new) for single characters
RECURSIVE Replace(_, _, _)
Replace(t, old, new) ==
    IF t = <<>> THEN <<>>
    ELSE TCat(Rep(IF t[1].c = old THEN new ELSE t[1].c, t[1].n),
              Replace(Tail(t), old, new))

\* mutant: the stem keeps the letter case of the name
SlugNoLower(name) == Replace(name, " ", "_")

\* line 88: name.replace(' ', '_').lower(), the stem of the skill file
Slug(name) == Lower(Replace(name, " ", "_"))

\* lines 89-96: the document written
SkillDoc(name, description, instructions) ==
    TCat(TCat(TCat(TCat(TCat(TCat(
        Lit(<<"#", " ">>),
        name),
        Lit(<<"\n", "\n", "#", "#", " ", "D", "e", "s", "c", "r", "i", "p", "t", "i", "o", "n", "\n">>)),
        description),
        Lit(<<"\n", "\n", "#", "#", " ", "I", "n", "s", "t", "r", "u", "c", "t", "i", "o", "n", "s", "\n">>)),
        instructions),
        Lit(<<"\n">>))

\* line 100
SkillCreatedText(name) ==
    TCat(TCat(Lit(<<"S", "k", "i", "l", "l", " ", "'">>), name),
         Lit(<<"'", " ", "c", "r", "e", "a", "t", "e", "d", " ", "s", "u", "c", "c", "e", "s", "s",
               "f", "u", "l", "l", "y", ".", " ", "I", "t", " ", "i", "s", " ", "n", "o", "w", " ",
               "a", "v", "a", "i", "l", "a", "b", "l", "e", " ", "f", "o", "r", " ", "u", "s", "e", ".">>))

\* line 102
SkillErrorText(e) ==
    TCat(Lit(<<"E", "r", "r", "o", "r", " ", "c", "r", "e", "a", "t", "i", "n", "g", " ",
               "s", "k", "i", "l", "l", ":", " ">>), e)

EmptyStore == [k \in {} |-> <<>>]

\* open(skill_file, "w") and write: the document under that stem is replaced
Put(store, k, doc) ==
    [x \in (DOMAIN store) \cup {k} |-> IF x = k THEN doc ELSE store[x]]

\* create_skill: sk.writable tells whether open and write succeed
create_skill(store, sk) ==
    IF sk.writable
    THEN [store |-> Put(store, Slug(sk.name),
                        SkillDoc(sk.name, sk.description, sk.instructions)),
          text |-> SkillCreatedText(sk.name),
          saved |-> TRUE]
    ELSE [store |-> store,
          text |-> SkillErrorText(ShortMsg),
          saved |-> FALSE]

\* the orders in which SKILLS_DIR.glob("*.md") can list the documents
Orders(store) ==
    LET n == Cardinality(DOMAIN store)
    IN  {o \in [1 .. n -> DOMAIN store] : \A i, j \in 1 .. n : i # j => o[i] # o[j]}

RECURSIVE SkillSections(_, _)
SkillSections(store, order) ==
    IF order = <<>> THEN <<>>
    ELSE TCat(TCat(TCat(TCat(TCat(
            Lit(<<"\n", "<", "s", "k", "i", "l", "l", " ", "n", "a", "m", "e", "=", "'">>),
            order[1]),
            Lit(<<"'", ">", "\n">>)),
            store[order[1]]),
            Lit(<<"\n", "<", "/", "s", "k", "i", "l", "l", ">", "\n">>)),
            SkillSections(store, Tail(order)))

\* load_skills, with the documents listed in the given order
load_skills(store, order) ==
    IF order = <<>> THEN <<>>
    ELSE TCat(Lit(<<"\n", "\n", "-", "-", "-", " ", "A", "V", "A", "I", "L", "A", "B", "L", "E",
                    " ", "S", "K", "I", "L", "L", "S", " ", "-", "-", "-", "\n">>),
              SkillSections(store, order))

\* mutant: the skills are not spliced into the system prompt
SystemTextNoSkills(store, order) == SystemPrompt

\* lines 286-293: the template, then system_prompt += load_skills()
SystemText(store, order) == TCat(SystemPrompt, load_skills(store, order))

\* what the model can pass to create_skill
SkillNames ==
    {Lit(<<"D", "e", "p", "l", "o", "y", " ", "H", "e", "l", "p", "e", "r">>),
     Lit(<<"d", "e", "p", "l", "o", "y", "_", "h", "e", "l", "p", "e", "r">>),
     Lit(<<"N", "o", "t", "e", "s">>)}

SkillArgs ==
    [name : SkillNames, description : {Lit(<<"d">>)},
     instructions : {Lit(<<"s", "1">>), Lit(<<"s", "2">>)}, writable : BOOLEAN]

NoSkillArgs ==
    [name |-> <<>>, description |-> <<>>, instructions |-> <<>>, writable |-> FALSE]

SkillCallKinds == {[name |-> CreateSkillName, arguments |-> "ok"]}

\* what SKILLS_DIR can hold when the process starts
OldNotes == SkillDoc(Lit(<<"N", "o", "t", "e", "s">>), Lit(<<"d">>), Lit(<<"s", "0">>))

OldDeploy ==
    SkillDoc(Lit(<<"D", "e", "p", "l", "o", "y", " ", "H", "e", "l", "p", "e", "r">>),
             Lit(<<"d">>), Lit(<<"s", "0">>))

InitialStores ==
    {EmptyStore,
     Put(Put(EmptyStore, Lit(<<"n", "o", "t", "e", "s">>), OldNotes),
         Lit(<<"d", "e", "p", "l", "o", "y", "_", "h", "e", "l", "p", "e", "r">>), OldDeploy)}

----------------------------------------------------------------------------
(* Initial state: the process before chat_command has built the conversation *)

NoMessage == AssistantMsg(<<>>, <<>>)

SessionInit ==
    /\ messages = <<>>
    /\ pc = "start"
    /\ phase = "prompt"
    /\ message = NoMessage
    /\ idx = 0
    /\ result = <<>>
    /\ lastInvoked = FALSE
    /\ invocations = 0
    /\ modelCalls = 0
    /\ toolCalls = 0
    /\ inputs = 0
    /\ cause = "none"
    /\ preError = <<>>
    /\ argPrompt = NoPrompt
    /\ lastLine = <<>>
    /\ turnModelCalls = 0

TruncOff ==
    /\ t_in = <<>>
    /\ t_once = <<>>
    /\ t_twice = <<>>
    /\ t_pc = "off"

NoSkills ==
    /\ skills = EmptyStore
    /\ loadedSkills = EmptyStore
    /\ loads = 0
    /\ saves = <<>>

ListOff ==
    /\ ld_dir = [path |-> <<>>, kind |-> "missing", listing |-> <<>>, readable |-> FALSE]
    /\ ld_out = <<>>
    /\ ld_pc = "off"

Init == SessionInit /\ NoSkills /\ ListOff /\ TruncOff

----------------------------------------------------------------------------
(* chat_command, lines 293-300: build the conversation, run the prompt turn *)

ChatStart(prompt) ==
    /\ pc = "start"
    /\ argPrompt' = prompt
    /\ loadedSkills' = skills
    /\ loads' = loads + 1
    /\ \E order \in Orders(skills) :
          LET system == SystemMsg(SystemText(skills, order))
          IN  IF prompt.given /\ prompt.text # <<>>
              THEN IF MarkupFails(prompt.text)
                   THEN /\ messages' = <<system>>
                        /\ pc' = "crashed"
                        /\ cause' = "print_error"
                        /\ phase' = phase
                   ELSE /\ messages' = AppendMsg(<<system>>, UserMsg(prompt.text))
                        /\ pc' = "model"
                        /\ cause' = cause
                        /\ phase' = "prompt"
              ELSE /\ messages' = <<system>>
                   /\ pc' = "input"
                   /\ cause' = cause
                   /\ phase' = "interactive"
    /\ UNCHANGED <<message, idx, result, lastInvoked, invocations, modelCalls,
                   toolCalls, inputs, preError, lastLine, turnModelCalls>>
    /\ UNCHANGED <<skills, saves>>
    /\ UNCHANGED listVars
    /\ UNCHANGED truncVars

(* _run_agent_loop, lines 218-231: the model call returns a reply; the      *)
(* bounds leave room for the reply that ends the turn                       *)
ModelReply(calls) ==
    /\ pc = "model"
    /\ modelCalls + (IF calls = <<>> THEN 0 ELSE 1) < MaxModelCalls
    /\ toolCalls + Len(calls) <= MaxToolCalls
    /\ message' = AssistantMsg(ReplyContent(calls), calls)
    /\ messages' = AppendMsg(messages, message')
    /\ modelCalls' = modelCalls + 1
    /\ turnModelCalls' = turnModelCalls + 1
    /\ toolCalls' = toolCalls + Len(calls)
    /\ IF EndOfTurn(message')
       THEN /\ pc' = "input"
            /\ phase' = "interactive"
            /\ idx' = idx
       ELSE /\ pc' = "dispatch"
            /\ phase' = phase
            /\ idx' = 1
    /\ UNCHANGED <<result, lastInvoked, invocations, inputs, cause, preError,
                   argPrompt, lastLine>>
    /\ UNCHANGED skillVars
    /\ UNCHANGED listVars
    /\ UNCHANGED truncVars

(* _run_agent_loop, lines 218-223: the model call raises; nothing in           *)
(* _run_agent_loop or chat_command catches it                                  *)
ModelError ==
    /\ pc = "model"
    /\ pc' = "crashed"
    /\ cause' = "model_error"
    /\ preError' = messages
    /\ UNCHANGED <<messages, phase, message, idx, result, lastInvoked, invocations,
                   modelCalls, toolCalls, inputs, argPrompt, lastLine, 
                   turnModelCalls>>
    /\ UNCHANGED skillVars
    /\ UNCHANGED listVars
    /\ UNCHANGED truncVars

(* _run_agent_loop, lines 233-256: one iteration of the for-loop; idx is   *)
(* the position of the call being dispatched, idx - 1 calls are done        *)
DispatchTool(ret, e) ==
    /\ pc = "dispatch"
    /\ e \in MsgsOf(Raised(message.tool_calls[idx]))
    /\ LET call == message.tool_calls[idx]
           isSkill == ToolRuns(call) /\ call.name = CreateSkillName
       IN  IF Raised(call) # "none" /\ ~Handled(Raised(call))
           THEN /\ pc' = "crashed"
                /\ cause' = "tool_error"
                /\ UNCHANGED <<messages, idx, result, lastInvoked, invocations, phase>>
                /\ UNCHANGED <<skills, saves>>
           ELSE /\ \E sk \in (IF isSkill THEN SkillArgs ELSE {NoSkillArgs}) :
                      LET made == create_skill(skills, sk)
                      IN  /\ result' = ToolResult(call, IF isSkill THEN made.text ELSE ret, e)
                          /\ skills' = IF isSkill THEN made.store ELSE skills
                          /\ saves' = IF isSkill /\ made.saved
                                      THEN Append(saves, [name |-> sk.name,
                                                          description |-> sk.description,
                                                          instructions |-> sk.instructions])
                                      ELSE saves
                /\ lastInvoked' = ToolRuns(call)
                /\ invocations' = IF ToolRuns(call) THEN invocations + 1 ELSE invocations
                /\ messages' = AppendResult(messages, call, result')
                /\ idx' = idx + 1
                /\ pc' = IF MoreCalls(message, idx) THEN "dispatch"
                         ELSE IF LoopCondition(turnModelCalls) THEN "model"
                         ELSE "input"
                /\ phase' = IF pc' = "input" THEN "interactive" ELSE phase
                /\ cause' = cause
    /\ UNCHANGED <<message, modelCalls, toolCalls, inputs, preError,
                   argPrompt, lastLine, turnModelCalls>>
    /\ UNCHANGED <<loadedSkills, loads>>
    /\ UNCHANGED listVars
    /\ UNCHANGED truncVars

(* chat_command, lines 304-312: one line read from the console *)
ReadLine(user_input) ==
    /\ pc = "input"
    /\ lastLine' = user_input
    /\ IF Lower(user_input) \in ExitWords
       THEN /\ pc' = "exited"
            /\ cause' = "exit"
            /\ UNCHANGED <<messages, inputs, turnModelCalls>>
       ELSE IF Strip(user_input) = <<>>
       THEN UNCHANGED <<messages, pc, inputs, cause, turnModelCalls>>
       ELSE /\ inputs < MaxInputs
            /\ modelCalls < MaxModelCalls
            /\ messages' = AppendMsg(messages, UserMsg(user_input))
            /\ pc' = "model"
            /\ inputs' = inputs + 1
            /\ turnModelCalls' = 0
            /\ cause' = cause
    /\ UNCHANGED <<phase, message, idx, result, lastInvoked, invocations, modelCalls,
                   toolCalls, preError, argPrompt>>
    /\ UNCHANGED skillVars
    /\ UNCHANGED listVars
    /\ UNCHANGED truncVars

(* chat_command, lines 304 and 314-316: console.input raises EOFError *)
EndOfInput ==
    /\ pc = "input"
    /\ pc' = "goodbye"
    /\ cause' = "eof"
    /\ UNCHANGED <<messages, phase, message, idx, result, lastInvoked, invocations,
                   modelCalls, toolCalls, inputs, preError, argPrompt, lastLine,
                   turnModelCalls>>
    /\ UNCHANGED skillVars
    /\ UNCHANGED listVars
    /\ UNCHANGED truncVars

(* KeyboardInterrupt, raised wherever the process is waiting: it is no       *)
(* Exception, so line 245 does not catch it; lines 314-316 catch it for the  *)
(* calls inside the while-loop, nothing catches it for the call of line 300  *)
Interrupt ==
    /\ pc \in {"model", "dispatch", "input"}
    /\ pc' = IF phase = "prompt" THEN "aborted" ELSE "goodbye"
    /\ cause' = "interrupt"
    /\ UNCHANGED <<messages, phase, message, idx, result, lastInvoked, invocations,
                   modelCalls, toolCalls, inputs, preError, argPrompt, lastLine,
                   turnModelCalls>>
    /\ UNCHANGED skillVars
    /\ UNCHANGED listVars
    /\ UNCHANGED truncVars

(* Sessions that explore the tool calls *)
Next ==
    \/ \E prompt \in FewPrompts : ChatStart(prompt)
    \/ \E calls \in BatchesWithin(toolCalls) : ModelReply(calls)
    \/ ModelError
    \/ \E ret \in ToolOutputs, e \in ExcMsgs : DispatchTool(ret, e)
    \/ \E user_input \in FewLines : ReadLine(user_input)
    \/ EndOfInput
    \/ Interrupt

Spec == Init /\ [][Next]_vars

(* Sessions that explore the driver: every prompt and every line *)
DriverNext ==
    \/ \E prompt \in Prompts : ChatStart(prompt)
    \/ \E calls \in BatchesWithinOf(FewCallKinds, toolCalls) : ModelReply(calls)
    \/ ModelError
    \/ \E ret \in FewOutputs, e \in {ShortMsg} : DispatchTool(ret, e)
    \/ \E user_input \in UserLines : ReadLine(user_input)
    \/ EndOfInput
    \/ Interrupt

DriverSpec == Init /\ [][DriverNext]_vars

(* Sessions that explore the skill store: the model calls create_skill *)
SkillInit ==
    /\ SessionInit
    /\ skills \in InitialStores
    /\ loadedSkills = EmptyStore
    /\ loads = 0
    /\ saves = <<>>
    /\ ListOff
    /\ TruncOff

SkillNext ==
    \/ \E prompt \in FewPrompts : ChatStart(prompt)
    \/ \E calls \in BatchesWithinOf(SkillCallKinds, toolCalls) : ModelReply(calls)
    \/ ModelError
    \/ \E ret \in FewOutputs, e \in {ShortMsg} : DispatchTool(ret, e)
    \/ \E user_input \in FewLines : ReadLine(user_input)
    \/ EndOfInput
    \/ Interrupt

SkillSpec == SkillInit /\ [][SkillNext]_vars

(* Sessions in which every tool invocation returns and the model, asked often *)
(* enough, returns a reply without tool calls                                  *)
ToolReturns == \E ret \in FewOutputs, e \in {ShortMsg} : DispatchTool(ret, e)

FinalReply == ModelReply(<<>>)

LiveSpec == DriverSpec /\ WF_vars(ToolReturns) /\ SF_vars(FinalReply)

----------------------------------------------------------------------------
(* The truncation rule of lines 249-250 as a function of its own: every     *)
(* input text is truncated once, and the outcome once more                  *)

MarkerLen == TLen(Marker)

StudyLengths ==
    (0 .. Slack) \cup ((Cap - MarkerLen - Slack) .. (Cap + Slack))

StudyTails == {<<>>, Marker, Lit(<<"z">>)}

TruncInputs ==
    {TCat(Rep(ch, k), tail) : ch \in {"a", ".", "]"}, k \in StudyLengths,
                              tail \in StudyTails}

TruncInit ==
    /\ SessionInit
    /\ NoSkills
    /\ ListOff
    /\ t_in \in TruncInputs
    /\ t_once = <<>>
    /\ t_twice = <<>>
    /\ t_pc = "in"

TruncOnce ==
    /\ t_pc = "in"
    /\ t_once' = Truncate(t_in)
    /\ t_pc' = "once"
    /\ UNCHANGED <<t_in, t_twice>>
    /\ UNCHANGED sessionVars
    /\ UNCHANGED skillVars
    /\ UNCHANGED listVars

TruncTwice ==
    /\ t_pc = "once"
    /\ t_twice' = Truncate(t_once)
    /\ t_pc' = "twice"
    /\ UNCHANGED <<t_in, t_once>>
    /\ UNCHANGED sessionVars
    /\ UNCHANGED skillVars
    /\ UNCHANGED listVars

TruncNext == TruncOnce \/ TruncTwice

TruncSpec == TruncInit /\ [][TruncNext]_vars

----------------------------------------------------------------------------
(* list_directory, lines 61-71, studied on its own *)

MaxEntries == 3      \* entries of the listed directory

\* ord() of the characters of the entry names
Ord(ch) ==
    CASE ch = "B" -> 66 [] ch = "a" -> 97 [] ch = "b" -> 98 [] OTHER -> 0

\* Python's str <: by code point, a proper prefix first
RECURSIVE TextLess(_, _)
TextLess(a, b) ==
    IF b = <<>> THEN FALSE
    ELSE IF a = <<>> THEN TRUE
    ELSE IF a[1].c # b[1].c THEN Ord(a[1].c) < Ord(b[1].c)
    ELSE LET k == Min(a[1].n, b[1].n)
         IN  TextLess(TDrop(a, k), TDrop(b, k))

\* insertion of one name into a sorted list
RECURSIVE InsertEntry(_, _)
InsertEntry(sorted, e) ==
    IF sorted = <<>> THEN <<e>>
    ELSE IF TextLess(e, sorted[1]) THEN <<e>> \o sorted
    ELSE <<sorted[1]>> \o InsertEntry(Tail(sorted), e)

\* mutant: the entries stay in the order os.listdir gave them
SortEntriesNone(entries) == entries

\* line 68: sorted(os.listdir(path))
RECURSIVE SortEntries(_)
SortEntries(entries) ==
    IF entries = <<>> THEN <<>>
    ELSE InsertEntry(SortEntries(Tail(entries)), entries[1])

\* line 69: "\n".join(entries)
RECURSIVE Join(_, _)
Join(entries, sep) ==
    IF entries = <<>> THEN <<>>
    ELSE IF Len(entries) = 1 THEN entries[1]
    ELSE TCat(TCat(entries[1], sep), Join(Tail(entries), sep))

\* line 66
NotADirectoryText(dir_path) ==
    TCat(TCat(Lit(<<"E", "r", "r", "o", "r", ":", " ">>), dir_path),
         Lit(<<" ", "i", "s", " ", "n", "o", "t", " ", "a", " ", "v", "a", "l", "i", "d", " ",
               "d", "i", "r", "e", "c", "t", "o", "r", "y", ".">>))

\* line 69
EmptyDirectoryText ==
    Lit(<<"(", "E", "m", "p", "t", "y", " ", "d", "i", "r", "e", "c", "t", "o", "r", "y", ")">>)

\* line 71
ListingErrorText(e) ==
    TCat(Lit(<<"E", "r", "r", "o", "r", " ", "l", "i", "s", "t", "i", "n", "g", " ",
               "d", "i", "r", "e", "c", "t", "o", "r", "y", ":", " ">>), e)

\* d.kind: what the path names; d.listing: the entries in the order os.listdir
\* gives them; d.readable: whether os.listdir succeeds
list_directory(d) ==
    IF d.kind # "dir" THEN NotADirectoryText(d.path)
    ELSE IF ~d.readable THEN ListingErrorText(ShortMsg)
    ELSE IF SortEntries(d.listing) = <<>> THEN EmptyDirectoryText
    ELSE Join(SortEntries(d.listing), Lit(<<"\n">>))

EntryNames == {Lit(<<"a">>), Lit(<<"B">>), Lit(<<"a", "b">>), Lit(<<"b">>)}

\* the listings os.listdir can give: distinct names in any order
Listings ==
    UNION {{l \in [1 .. n -> EntryNames] : \A i, j \in 1 .. n : i # j => l[i] # l[j]} :
              n \in 0 .. MaxEntries}

DirPaths == {Lit(<<"s", "r", "c">>)}

ListInputs ==
    [path : DirPaths, kind : {"dir"}, listing : Listings, readable : BOOLEAN]
    \cup [path : DirPaths, kind : {"missing", "file"}, listing : {<<>>}, readable : {FALSE}]

ListInit ==
    /\ SessionInit
    /\ NoSkills
    /\ TruncOff
    /\ ld_dir \in ListInputs
    /\ ld_out = <<>>
    /\ ld_pc = "in"

ListDirectory ==
    /\ ld_pc = "in"
    /\ ld_out' = list_directory(ld_dir)
    /\ ld_pc' = "out"
    /\ UNCHANGED ld_dir
    /\ UNCHANGED sessionVars
    /\ UNCHANGED skillVars
    /\ UNCHANGED truncVars

ListNext == ListDirectory

ListSpec == ListInit /\ [][ListNext]_vars

----------------------------------------------------------------------------
(* Vocabulary of the properties *)

NMsgs == Len(messages)

LastMsg == messages[NMsgs]

LastIsTool == NMsgs > 0 /\ LastMsg.role = "tool"

\* the call whose result was appended last (meaningful while LastIsTool)
DoneCall == message.tool_calls[idx - 1]

FinalReplyLast ==
    NMsgs > 0 /\ LastMsg.role = "assistant" /\ LastMsg.tool_calls = <<>>

TurnStarted == \E i \in 1 .. NMsgs : messages[i].role = "user"

IsPrefix(a, b) == Len(a) <= Len(b) /\ SubSeq(b, 1, Len(a)) = a

HasPrefix(t, p) == TTake(t, TLen(p)) = p

AssistantIdxs == {i \in 1 .. NMsgs : messages[i].role = "assistant"}

\* the nearest assistant message before position i, 0 if there is none
NearestAssistant(i) ==
    LET before == {k \in AssistantIdxs : k < i}
    IN  IF before = {} THEN 0
        ELSE CHOOSE k \in before : \A j \in before : j <= k

CountRole(r) == Cardinality({i \in 1 .. NMsgs : messages[i].role = r})

----------------------------------------------------------------------------
(* C1: whenever a model call is about to be issued after a reply that      *)
(* carried n >= 1 tool calls, that reply is followed by exactly n          *)
(* tool-result messages and the i-th of them carries the id of the reply's *)
(* i-th tool call, whatever the outcome of each call was.                  *)
C1_OneResultPerCallInOrder ==
    (pc = "model" /\ AssistantIdxs # {}) =>
        LET k == NearestAssistant(NMsgs + 1)
            calls == messages[k].tool_calls
            n == Len(calls)
        IN  n >= 1 =>
              /\ NMsgs = k + n
              /\ \A i \in 1 .. n :
                    /\ messages[k + i].role = "tool"
                    /\ messages[k + i].tool_call_id = calls[i].id

\* a batch of two calls with ids out of call order, the first with arguments
\* that do not decode and the second raising, both answered
C1_Witness ==
    /\ pc = "model"
    /\ NMsgs >= 3
    /\ messages[NMsgs - 2].role = "assistant"
    /\ Len(messages[NMsgs - 2].tool_calls) = 2
    /\ messages[NMsgs - 2].tool_calls[1].id = 2
    /\ messages[NMsgs - 2].tool_calls[1].arguments = "badjson"
    /\ messages[NMsgs - 2].tool_calls[2].arguments = "badkw"
    /\ messages[NMsgs - 1].role = "tool"
    /\ messages[NMsgs].role = "tool"

(* C2: whenever a model call is about to be issued, every tool-result      *)
(* message carries the id of exactly one tool call of the nearest assistant *)
(* message before it, and every assistant message with n tool calls is      *)
(* followed at once by exactly n tool-result messages, in call order.       *)
C2_ConversationWellFormed ==
    pc = "model" =>
        /\ \A i \in 1 .. NMsgs :
              messages[i].role = "tool" =>
                 LET k == NearestAssistant(i)
                 IN  /\ k > 0
                     /\ Cardinality({j \in 1 .. Len(messages[k].tool_calls) :
                            messages[k].tool_calls[j].id = messages[i].tool_call_id}) = 1
        /\ \A k \in AssistantIdxs :
              LET calls == messages[k].tool_calls
                  n == Len(calls)
              IN  /\ k + n <= NMsgs
                  /\ \A i \in 1 .. n :
                        /\ messages[k + i].role = "tool"
                        /\ messages[k + i].tool_call_id = calls[i].id
                  /\ (k + n < NMsgs => messages[k + n + 1].role # "tool")

\* a second turn is running and both turns dispatched a tool call
C2_Witness ==
    /\ pc = "model"
    /\ CountRole("user") >= 2
    /\ CountRole("tool") >= 2
    /\ LastMsg.role = "tool"

(* C3: a reply without tool calls ends the turn at once: the step that      *)
(* appends it hands control back to the driver, and while it is the last    *)
(* message no model call is pending and no tool is being dispatched.        *)
C3_NoToolCallsEndsTurn ==
    /\ [][(modelCalls' = modelCalls + 1 /\ message'.tool_calls = <<>>)
             => pc' = "input"]_vars
    /\ [](FinalReplyLast => pc \notin {"model", "dispatch"})

C3_Witness ==
    /\ FinalReplyLast
    /\ pc = "input"
    /\ CountRole("tool") >= 1

(* C4 as stated: every way a turn stops is preceded by a reply without      *)
(* tool calls: once a turn has started and the loop is no longer running,   *)
(* the last message is such a reply.                                        *)
C4_OnlyFinalReplyStopsTurn ==
    (TurnStarted /\ pc \notin {"model", "dispatch"}) => FinalReplyLast

(* C4 amended: the loop hands control back to the driver only after a reply *)
(* without tool calls; a turn that stopped otherwise was stopped by an       *)
(* interrupt or by a failing model call, which end the session with it.      *)
C4_TurnStopsByReplyOrException ==
    (TurnStarted /\ pc \notin {"model", "dispatch"}) =>
        \/ FinalReplyLast
        \/ /\ cause \in {"interrupt", "model_error"}
           /\ pc \in {"goodbye", "aborted", "crashed"}

\* a turn interrupted while its tool calls were being dispatched
C4_Witness ==
    /\ pc = "goodbye"
    /\ cause = "interrupt"
    /\ LastIsTool
    /\ idx <= Len(message.tool_calls)

(* C5: a tool call whose arguments are not valid JSON runs no tool and gets *)
(* a tool-result message with its own id whose text starts with "Error:     *)
(* Invalid arguments"; the loop goes on to the next call of the batch, and  *)
(* when the batch is done every later call has its own tool-result message. *)
InvalidArgumentsText ==
    Lit(<<"E", "r", "r", "o", "r", ":", " ", "I", "n", "v", "a", "l", "i", "d", " ",
          "a", "r", "g", "u", "m", "e", "n", "t", "s">>)

C5_InvalidArgumentsContained ==
    /\ (LastIsTool /\ DoneCall.arguments = "badjson") =>
          /\ ~lastInvoked
          /\ LastMsg.tool_call_id = DoneCall.id
          /\ HasPrefix(LastMsg.content, InvalidArgumentsText)
          /\ cause = "none" =>
                IF idx <= Len(message.tool_calls) THEN pc = "dispatch" ELSE pc = "model"
    /\ (LastIsTool /\ pc = "model") =>
          LET calls == message.tool_calls
              n == Len(calls)
          IN  \A i \in 1 .. n : calls[i].arguments = "badjson" =>
                 \A j \in (i + 1) .. n :
                    /\ messages[NMsgs - n + j].role = "tool"
                    /\ messages[NMsgs - n + j].tool_call_id = calls[j].id

\* the first call of a batch of two did not decode, the second ran its tool
C5_Witness ==
    /\ LastIsTool
    /\ pc = "model"
    /\ Len(message.tool_calls) = 2
    /\ message.tool_calls[1].arguments = "badjson"
    /\ message.tool_calls[2].arguments = "ok"
    /\ lastInvoked
    /\ HasPrefix(messages[NMsgs - 1].content, InvalidArgumentsText)

(* C6: an exception raised while invoking a registered tool with decoded    *)
(* arguments never stops the engine: `result` becomes "Error executing tool *)
(* '<name>': <message>", it is appended (cut by the truncation rule when    *)
(* longer than the cap) as the call's tool-result message, and the loop     *)
(* continues with the next tool call or the next model call.                *)
ExecErrorText ==
    Lit(<<"E", "r", "r", "o", "r", " ", "e", "x", "e", "c", "u", "t", "i", "n", "g",
          " ", "t", "o", "o", "l", " ", "'">>)

QuoteColon == Lit(<<"'", ":", " ">>)

C6_ToolFailureContained ==
    /\ cause # "tool_error"
    /\ (LastIsTool /\ DoneCall.name \in TOOLS_MAP /\ DoneCall.arguments = "badkw") =>
          LET head == TCat(TCat(ExecErrorText, DoneCall.name), QuoteColon)
          IN  /\ HasPrefix(result, head)
              /\ TDrop(result, TLen(head)) \in ExcMsgs
              /\ LastMsg.tool_call_id = DoneCall.id
              /\ HasPrefix(LastMsg.content, TTake(result, Cap))
              /\ TLen(result) <= Cap => LastMsg.content = result
              /\ cause = "none" =>
                    IF idx <= Len(message.tool_calls) THEN pc = "dispatch" ELSE pc = "model"

\* a raising call, then the next call of the batch, then the next model call
C6_Witness ==
    /\ pc = "input"
    /\ FinalReplyLast
    /\ NMsgs >= 4
    /\ messages[NMsgs - 3].role = "assistant"
    /\ Len(messages[NMsgs - 3].tool_calls) = 2
    /\ messages[NMsgs - 3].tool_calls[1].arguments = "badkw"
    /\ messages[NMsgs - 3].tool_calls[1].name \in TOOLS_MAP
    /\ HasPrefix(messages[NMsgs - 2].content, ExecErrorText)
    /\ messages[NMsgs - 1].role = "tool"

(* C7: a failing model call ends the current turn only: afterwards the      *)
(* driver is reading input again and the conversation still holds every     *)
(* message it held before the failure.                                      *)
C7_ModelErrorEndsTurnOnly ==
    cause = "model_error" =>
        /\ pc = "input"
        /\ IsPrefix(preError, messages)

(* C8: the conversation is append-only: every step leaves the messages      *)
(* already in it at their index with their content, and the system message  *)
(* stays at index 0 (position 1 here).                                      *)
C8_AppendOnly ==
    /\ [][IsPrefix(messages, messages')]_vars
    /\ [](NMsgs > 0 => messages[1] = SystemMsg(SystemPrompt))

\* a session that ran two turns, dispatched a tool and ended by an exit word
C8_Witness ==
    /\ pc = "exited"
    /\ CountRole("user") >= 2
    /\ CountRole("tool") >= 1
    /\ CountRole("assistant") >= 2

(* C9: the content of a tool-result message is `result` itself when result  *)
(* has at most 10,000 characters, and otherwise the first 10,000 characters *)
(* of result followed by "... [Truncated]"; no tool-result content is       *)
(* longer than 10,000 plus the marker's length.                             *)
TruncatedMarkerText ==
    Lit(<<".", ".", ".", " ", "[", "T", "r", "u", "n", "c", "a", "t", "e", "d", "]">>)

C9_ResultTruncation ==
    /\ LastIsTool =>
          IF TLen(result) > 10000
          THEN /\ TTake(LastMsg.content, 10000) = TTake(result, 10000)
               /\ TDrop(LastMsg.content, 10000) = TruncatedMarkerText
          ELSE LastMsg.content = result
    /\ \A i \in 1 .. NMsgs :
          messages[i].role = "tool" => TLen(messages[i].content) <= 10000 + 15

\* one result of exactly 10,000 characters passed through, one longer was cut
C9_Witness ==
    /\ LastIsTool
    /\ TLen(result) = 10001
    /\ TLen(LastMsg.content) = 10015
    /\ NMsgs >= 2
    /\ messages[NMsgs - 1].role = "tool"
    /\ TLen(messages[NMsgs - 1].content) = 10000

(* C10: truncating an already truncated text changes nothing, also when the *)
(* once-truncated text is longer than the cap because of the marker.        *)
C10_TruncateIdempotent ==
    t_pc = "twice" => t_twice = t_once

\* an input that was cut: the once-truncated text is longer than the cap
C10_Witness ==
    /\ t_pc = "twice"
    /\ TLen(t_in) > Cap
    /\ t_once # t_in
    /\ TLen(t_once) > Cap

(* C11 as stated: of the lines read, the empty one is ignored, an exit word *)
(* in any letter case ends the session without a message or a model call,   *)
(* and every other line is appended as one user message and starts a turn.  *)
LineRead == pc = "input" /\ pc' \in {"input", "exited", "model"}

C11_ExitForms ==
    {Lit(<<"e", "x", "i", "t">>), Lit(<<"q", "u", "i", "t">>), Lit(<<"q">>)}

Ignored == messages' = messages /\ pc' = "input" /\ modelCalls' = modelCalls

SessionEnded == messages' = messages /\ pc' = "exited" /\ modelCalls' = modelCalls

TurnStartedOn(line) ==
    /\ messages' = Append(messages, UserMsg(line))
    /\ pc' = "model"
    /\ turnModelCalls' = 0
    /\ modelCalls' = modelCalls

C11_EveryOtherLineStartsTurn ==
    [][LineRead =>
          IF lastLine' = <<>> THEN Ignored
          ELSE IF Lower(lastLine') \in C11_ExitForms THEN SessionEnded
          ELSE TurnStartedOn(lastLine')]_vars

(* C11 amended: an exit word in any letter case ends the session; a line    *)
(* that is empty or holds only whitespace is ignored; every other line, an  *)
(* exit word with blanks around it included, is appended as one user        *)
(* message and starts one turn.                                             *)
OnlyWhitespace(line) == \A i \in 1 .. Len(line) : line[i].c \in {" ", "\t", "\n", "\r"}

C11_BlankLinesIgnored ==
    [][LineRead =>
          IF Lower(lastLine') \in C11_ExitForms THEN SessionEnded
          ELSE IF OnlyWhitespace(lastLine') THEN Ignored
          ELSE TurnStartedOn(lastLine')]_vars

\* a line of one blank was read after a turn, and the driver prompts again
C11_Witness ==
    /\ pc = "input"
    /\ lastLine = Lit(<<" ">>)
    /\ CountRole("user") >= 1
    /\ FinalReplyLast

(* C12: end of input or an interrupt ends the session with the farewell of  *)
(* line 315, wherever it arrives: while a line is awaited, during a turn    *)
(* started from a line, or during the turn of the initial prompt.           *)
C12_InterruptEndsWithFarewell ==
    cause \in {"interrupt", "eof"} => pc = "goodbye"

(* C13: a completed turn extended the conversation, after its user message, *)
(* by k groups of one assistant message with n_j >= 1 tool calls followed   *)
(* by its n_j tool-result messages in call order, then by one assistant     *)
(* message without tool calls and nothing else; the turn made k + 1 model   *)
(* calls.                                                                   *)
LastUserIdx ==
    CHOOSE u \in 1 .. NMsgs :
        /\ messages[u].role = "user"
        /\ \A j \in (u + 1) .. NMsgs : messages[j].role # "user"

RECURSIVE TurnShape(_, _)
TurnShape(i, groups) ==
    /\ i <= NMsgs
    /\ messages[i].role = "assistant"
    /\ LET calls == messages[i].tool_calls
           n == Len(calls)
       IN  IF n = 0
           THEN /\ i = NMsgs
                /\ turnModelCalls = groups + 1
           ELSE /\ i + n < NMsgs
                /\ \A j \in 1 .. n :
                      /\ messages[i + j].role = "tool"
                      /\ messages[i + j].tool_call_id = calls[j].id
                /\ TurnShape(i + n + 1, groups + 1)

C13_CompletedTurnShape ==
    (TurnStarted /\ FinalReplyLast) => TurnShape(LastUserIdx + 1, 0)

\* k = 1, n_1 = 2: user, assistant with two calls, two results, final reply
C13_Witness ==
    /\ pc = "input"
    /\ NMsgs >= 5
    /\ messages[NMsgs - 4].role = "user"
    /\ messages[NMsgs - 3].role = "assistant"
    /\ Len(messages[NMsgs - 3].tool_calls) = 2
    /\ messages[NMsgs - 2].role = "tool"
    /\ messages[NMsgs - 1].role = "tool"
    /\ FinalReplyLast
    /\ turnModelCalls = 2

----------------------------------------------------------------------------
(* C14 *)

DeployHelperName == Lit(<<"D", "e", "p", "l", "o", "y", " ", "H", "e", "l", "p", "e", "r">>)

DeployHelperSlug == Lit(<<"d", "e", "p", "l", "o", "y", "_", "h", "e", "l", "p", "e", "r">>)

\* the slug each name is expected to get: spaces to underscores, lower case
C14_SlugOf(name) ==
    CASE name = DeployHelperName -> DeployHelperSlug
      [] name = DeployHelperSlug -> DeployHelperSlug
      [] name = Lit(<<"N", "o", "t", "e", "s">>) -> Lit(<<"n", "o", "t", "e", "s">>)

C14_SavedSlugs == {C14_SlugOf(saves[i].name) : i \in 1 .. Len(saves)}

\* the last save under slug k
C14_LastSave(k) ==
    LET last == CHOOSE i \in 1 .. Len(saves) :
                    /\ C14_SlugOf(saves[i].name) = k
                    /\ \A j \in (i + 1) .. Len(saves) : C14_SlugOf(saves[j].name) # k
    IN  saves[last]

\* C14: every successful create_skill stores its document under the slug of
\* its name (spaces replaced by underscores, lower-cased; "Deploy Helper" gives
\* deploy_helper); a later save with the same slug replaces that one document,
\* so the store holds exactly one document per distinct slug saved (besides
\* the documents it held at startup under other slugs), and each is the
\* document of the last call saved under its slug.
C14_SlugOverwrite ==
    /\ pc = "start" => saves = <<>>
    /\ pc # "start" =>
          /\ DOMAIN skills = (DOMAIN loadedSkills) \cup C14_SavedSlugs
          /\ Cardinality(DOMAIN skills)
                = Cardinality((DOMAIN loadedSkills) \cup C14_SavedSlugs)
          /\ \A k \in DOMAIN skills :
                IF k \in C14_SavedSlugs
                THEN LET sk == C14_LastSave(k)
                     IN  skills[k] = SkillDoc(sk.name, sk.description, sk.instructions)
                ELSE skills[k] = loadedSkills[k]

\* two saves whose names differ and whose slug is the same left one document,
\* that of the second save
C14_Witness ==
    /\ Len(saves) = 2
    /\ saves[1].name = DeployHelperName
    /\ saves[2].name = DeployHelperSlug
    /\ saves[1].instructions # saves[2].instructions
    /\ loadedSkills = EmptyStore
    /\ DOMAIN skills = {DeployHelperSlug}
    /\ skills[DeployHelperSlug]
          = SkillDoc(saves[2].name, saves[2].description, saves[2].instructions)

----------------------------------------------------------------------------
(* C15 *)

\* the entries of the listed directory in ascending order, described and not
\* computed: a rearrangement of the listing with each name before the next
C15_Ascending(l) ==
    CHOOSE srt \in Listings :
        /\ Len(srt) = Len(l)
        /\ {srt[i] : i \in 1 .. Len(srt)} = {l[i] : i \in 1 .. Len(l)}
        /\ \A i \in 1 .. Len(srt) - 1 : TextLess(srt[i], srt[i + 1])

C15_NotADirectory ==
    Lit(<<"E", "r", "r", "o", "r", ":", " ", "s", "r", "c", " ", "i", "s", " ", "n", "o", "t", " ",
          "a", " ", "v", "a", "l", "i", "d", " ", "d", "i", "r", "e", "c", "t", "o", "r", "y", ".">>)

C15_Outcome(listable) ==
    ld_pc = "out" =>
       /\ (ld_dir.kind = "dir" /\ ld_dir.listing # <<>> /\ listable) =>
             ld_out = Join(C15_Ascending(ld_dir.listing), Lit(<<"\n">>))
       /\ (ld_dir.kind = "dir" /\ ld_dir.listing = <<>> /\ listable) =>
             ld_out = EmptyDirectoryText
       /\ ld_dir.kind # "dir" => ld_out = C15_NotADirectory

\* C15 as claimed: list_directory returns the sorted, newline-joined names for
\* every existing directory with an entry, "(Empty directory)" for every
\* existing empty directory, and the not-a-valid-directory text for a path
\* that is no directory.
C15_ListsEveryDirectory == C15_Outcome(TRUE)

\* C15, amended: list_directory always returns a text; for a directory that
\* os.listdir can list it is the names sorted by code point and joined by
\* newlines, or "(Empty directory)" when there is none; for a directory whose
\* listing fails it is "Error listing directory: " and the error; for a path
\* that is no directory it is the not-a-valid-directory text.
C15_ListsListableDirectory ==
    /\ C15_Outcome(ld_dir.readable)
    /\ (ld_pc = "out" /\ ld_dir.kind = "dir" /\ ~ld_dir.readable) =>
          ld_out = TCat(Lit(<<"E", "r", "r", "o", "r", " ", "l", "i", "s", "t", "i", "n", "g", " ",
                              "d", "i", "r", "e", "c", "t", "o", "r", "y", ":", " ">>), ShortMsg)

\* b, ab, B as listed come back as B, ab, b
C15_Witness ==
    /\ ld_pc = "out"
    /\ ld_dir.kind = "dir"
    /\ ld_dir.readable
    /\ ld_dir.listing = <<Lit(<<"b">>), Lit(<<"a", "b">>), Lit(<<"B">>)>>
    /\ ld_out = Lit(<<"B", "\n", "a", "b", "\n", "b">>)

----------------------------------------------------------------------------
(* C16 *)

ToolNotFoundText ==
    Lit(<<"E", "r", "r", "o", "r", ":", " ", "T", "o", "o", "l", " ", "'", "r", "m", "'", " ",
          "n", "o", "t", " ", "f", "o", "u", "n", "d", ".">>)

\* C16: each call is decoded, then resolved, then invoked: a call whose
\* arguments decode as JSON and whose name is not in the registry gets the
\* "Tool ... not found" text and runs no tool; a call whose arguments do not
\* decode gets the invalid-arguments text, also when its name is unknown; in
\* both cases the loop goes on with the next call.
C16_DecodeResolveInvoke ==
    /\ (LastIsTool /\ DoneCall.name \notin TOOLS_MAP /\ DoneCall.arguments # "badjson") =>
          /\ ~lastInvoked
          /\ LastMsg.content = ToolNotFoundText
    /\ (LastIsTool /\ DoneCall.arguments = "badjson") =>
          /\ ~lastInvoked
          /\ HasPrefix(LastMsg.content, InvalidArgumentsText)
    /\ (LastIsTool /\ cause = "none"
          /\ (DoneCall.name \notin TOOLS_MAP \/ DoneCall.arguments = "badjson")) =>
          IF idx <= Len(message.tool_calls) THEN pc = "dispatch" ELSE pc = "model"

----------------------------------------------------------------------------
(* C17 *)

InTurn == pc \in {"model", "dispatch"}

\* C17: the loop has no limit on its round trips: after the last result of a
\* batch it calls the model again whatever the number of model calls the turn
\* has made, and it hands control back only on a reply without tool calls, so
\* a turn whose replies all carry tool calls never completes; when every tool
\* invocation returns and the model eventually replies without tool calls,
\* the turn ends with that reply (unless an error or an interrupt ends it).
C17_UnboundedRoundTrips ==
    /\ [][(pc = "dispatch" /\ pc' \in {"model", "input"}) => pc' = "model"]_vars
    /\ [][(pc = "model" /\ pc' = "input") => message'.tool_calls = <<>>]_vars
    /\ InTurn ~> ((pc = "input" /\ FinalReplyLast) \/ cause # "none")

\* a turn that made three model calls, two of them answered with a tool call
C17_Witness ==
    /\ pc = "input"
    /\ FinalReplyLast
    /\ turnModelCalls >= 3
    /\ toolCalls >= 2

----------------------------------------------------------------------------
(* C18 *)

C18_SystemMessages ==
    {SystemMsg(TCat(SystemPrompt, load_skills(loadedSkills, order))) :
        order \in Orders(loadedSkills)}

C18_LoadedOnceAtStartup ==
    /\ pc = "start" => (loads = 0 /\ modelCalls = 0)
    /\ pc # "start" =>
          /\ loads = 1
          /\ messages[1] \in C18_SystemMessages

C18_SaveLeavesSystemMessage ==
    /\ pc # "start" => (messages'[1] = messages[1] /\ loadedSkills' = loadedSkills)
    /\ saves' # saves =>
          LET sk == saves'[Len(saves')]
          IN  /\ skills' # skills \/ skills[Slug(sk.name)]
                                        = SkillDoc(sk.name, sk.description, sk.instructions)
              /\ skills'[Slug(sk.name)] = SkillDoc(sk.name, sk.description, sk.instructions)
              /\ Len(messages') = Len(messages) + 1
              /\ messages'[Len(messages')].role = "tool"
              /\ HasPrefix(messages'[Len(messages')].content,
                           TCat(Lit(<<"S", "k", "i", "l", "l", " ", "'">>), sk.name))

\* C18: load_skills runs once, when the session starts and before any model
\* call; the system message is the template followed by the text of the
\* skills stored at that moment; a create_skill call that saves its document
\* changes the store and appends its tool-result text, and leaves the system
\* message of the running conversation as it was.
C18_SkillsLoadedOnce ==
    /\ []C18_LoadedOnceAtStartup
    /\ [][C18_SaveLeavesSystemMessage]_vars

\* a skill saved over a loaded one in a session that loaded two skills
C18_Witness ==
    /\ Len(saves) >= 1
    /\ Cardinality(DOMAIN loadedSkills) = 2
    /\ skills # loadedSkills
    /\ loads = 1
    /\ messages[1] \in C18_SystemMessages
    /\ messages[1].content # SystemPrompt

----------------------------------------------------------------------------
(* C19 *)

PromptGiven == argPrompt.given /\ argPrompt.text # <<>>

C19_PromptAppended ==
    (pc # "start" /\ PromptGiven) =>
        /\ NMsgs >= 2
        /\ messages[1].role = "system"
        /\ messages[2] = [role |-> "user", content |-> argPrompt.text,
                          tool_calls |-> <<>>, tool_call_id |-> NoId]

\* the step after which the first interactive line is awaited
C19_FirstPrompting == pc # "input" /\ pc' = "input" /\ inputs' = 0

C19_TurnBeforeFirstLine ==
    C19_FirstPrompting =>
        IF argPrompt'.given /\ argPrompt'.text # <<>>
        THEN /\ messages'[2].content = argPrompt'.text
             /\ Cardinality({i \in 1 .. Len(messages') : messages'[i].role = "user"}) = 1
             /\ messages'[Len(messages')].role = "assistant"
             /\ messages'[Len(messages')].tool_calls = <<>>
             /\ modelCalls' >= 1
        ELSE /\ Len(messages') = 1
             /\ messages'[1].role = "system"
             /\ modelCalls' = 0

\* C19: given an initial prompt, chat_command appends exactly one user message
\* holding it directly after the system message and runs one full turn before
\* the first interactive line is read; given no prompt or an empty one, the
\* conversation holds only the system message and no model call was made
\* when the first interactive line is read.
C19_InitialPrompt ==
    /\ []C19_PromptAppended
    /\ [][C19_TurnBeforeFirstLine]_vars

----------------------------------------------------------------------------
(* C20 *)

C20_NothingPending(m) ==
    \/ m.role = "system"
    \/ m.role = "assistant" /\ m.tool_calls = <<>>

C20_ReadsWithNothingPending ==
    /\ pc = "input" => (NMsgs >= 1 /\ C20_NothingPending(messages[NMsgs]))
    /\ Cardinality({i \in 1 .. NMsgs : messages[i].role = "assistant"}) = modelCalls

C20_AppendsWithNothingPending ==
    (Len(messages') > Len(messages) /\ messages'[Len(messages')].role = "user") =>
        /\ Len(messages') >= 2
        /\ C20_NothingPending(messages'[Len(messages') - 1])
        /\ \A i \in 1 .. Len(messages) : messages'[i] = messages[i]

\* C20: whenever the driver awaits a line, and whenever a user message is
\* appended, the message before it is the system message or an assistant
\* message without tool calls; and in every state the conversation holds as
\* many assistant messages as model calls have returned.
C20_UserOnlyBetweenTurns ==
    /\ []C20_ReadsWithNothingPending
    /\ [][C20_AppendsWithNothingPending]_vars

\* a second turn started on a line, after a turn that ran a tool call
C20_Witness ==
    /\ pc = "model"
    /\ NMsgs >= 6
    /\ messages[NMsgs].role = "user"
    /\ messages[NMsgs - 1].role = "assistant"
    /\ messages[NMsgs - 1].tool_calls = <<>>
    /\ messages[NMsgs - 2].role = "tool"
    /\ modelCalls = 2

====
